---------------------------- MODULE Spec2Model ----------------------------
(***************************************************************************)
(* The Streamlit front end of the AI Health Assistant (src/app.py): the    *)
(* per-session conversation state (chat_history, selected_symptoms,        *)
(* conversation_stage), the process-wide cached model, and one action per  *)
(* widget event, each modelling the whole script run the event triggers    *)
(* (st.rerun() included).                                                  *)
(*                                                                         *)
(* Strings are sequences of one-character strings so that str.lower() and  *)
(* the substring test `s in input_lower` are computed, not assumed.        *)
(* A chat entry's 'timestamp' (datetime.now(), display only, read by no    *)
(* handler) is not part of the modelled entry.                             *)
(***************************************************************************)
EXTENDS Naturals, Sequences, FiniteSets

VARIABLES
    model_cache,        \* the value cached by @st.cache_resource load_model()
    checker,            \* st.session_state.checker, per session
    chat_history,       \* st.session_state.chat_history, per session
    selected_symptoms,  \* st.session_state.selected_symptoms, per session
    conversation_stage, \* st.session_state.conversation_stage, per session
    mode,               \* the sidebar radio's value, per session
    log,                \* history variable: per session and catalog symptom,
                        \* "never" | "in" | "removed" since the last reset
    diag,               \* history variable: per session, the latest Get
                        \* Diagnosis made since the last Send, remove or reset
    last                \* history variable: what the latest script run did

vars == <<model_cache, checker, chat_history, selected_symptoms,
          conversation_stage, mode, log, diag, last>>

---------------------------------------------------------------------------
(* Bounds *)

\* Send is modelled while the chat history has room for its two entries
\* (the welcome message and two turns; one more admits a third turn).
MaxHistory == 6
\* Same, in the specification with two interleaving sessions.
MaxHistoryMulti == 3
\* Same, in the specification that sends every utterance up to MaxLen.
MaxHistoryMatch == 3
\* Longest utterance of the matching specification.
MaxLen == 3

---------------------------------------------------------------------------
(* Strings *)

Chars == {"a", "b", "x", "A", "B", "X"}

\* str.lower() on one character
LowerChar(c) ==
    CASE c = "A" -> "a"
      [] c = "B" -> "b"
      [] c = "X" -> "x"
      [] OTHER   -> c

\* user_input.lower()
Lower(str) == [i \in 1..Len(str) |-> LowerChar(str[i])]

\* str.startswith
StartsWith(t, s) == Len(s) <= Len(t) /\ SubSeq(t, 1, Len(s)) = s

\* Python's `s in t` on strings: s occurs in t starting at some offset
RECURSIVE Contains(_, _)
Contains(t, s) ==
    IF StartsWith(t, s) THEN TRUE
    ELSE IF t = <<>> THEN FALSE
    ELSE Contains(Tail(t), s)

ToSet(seq) == {seq[i] : i \in 1..Len(seq)}

\* The lists a Python list(set(...)) can produce: the set's elements, once
\* each, in an order that depends on the strings' hashes.
Perms(S) ==
    {f \in [1..Cardinality(S) -> S] :
        \A i, j \in 1..Cardinality(S) : i # j => f[i] # f[j]}

\* All strings over Chars of length at most n
StringsUpTo(n) == UNION {[1..k -> Chars] : k \in 0..n}

---------------------------------------------------------------------------
(* The checker: symptom_checker_complete.SymptomChecker *)

\* checker.get_all_symptoms(): the canonical symptoms "ab" and "ba"
Catalog == << <<"a", "b">>, <<"b", "a">> >>

CatalogSet == ToSet(Catalog)

\* The artifacts load_model() can unpickle: one whose classifier fits the
\* catalog, one whose classifier does not (every prediction reports an error).
Checkers == {[all_symptoms |-> Catalog, compatible |-> TRUE],
             [all_symptoms |-> Catalog, compatible |-> FALSE]}

NoChecker == [all_symptoms |-> <<>>, compatible |-> FALSE]

\* Vector encoder: position i is 1 iff Catalog[i] is among the symptoms
Encode(chk, symptoms) ==
    [i \in 1..Len(chk.all_symptoms) |->
        IF chk.all_symptoms[i] \in ToSet(symptoms) THEN 1 ELSE 0]

\* The classifier, a fixed deterministic function of the vector:
\* label and confidence in percent
Classify(vec) ==
    CASE vec = <<1, 0>> -> [disease |-> "flu", confidence |-> 82]
      [] vec = <<0, 1>> -> [disease |-> "cold", confidence |-> 65]
      [] vec = <<1, 1>> -> [disease |-> "flu", confidence |-> 90]
      [] OTHER          -> [disease |-> "cold", confidence |-> 50]

NoResult ==
    [error |-> "", disease |-> "", confidence |-> 0, needs_more_info |-> FALSE]

\* checker.predict(symptoms): the result dictionary the front end reads
Predict(chk, symptoms) ==
    IF ~chk.compatible
    THEN [NoResult EXCEPT !.error = "ModelUnavailable"]
    ELSE LET c == Classify(Encode(chk, symptoms))
         IN  [error |-> "", disease |-> c.disease, confidence |-> c.confidence,
              needs_more_info |-> c.confidence < 70]


---------------------------------------------------------------------------
(* Session state *)

Sessions == {"s1", "s2"}

Modes == {"chat", "quick", "browse"}

\* Mutant of Put: one store shared by every session (a module-level global)
PutShared(store, s, value) == [t \in DOMAIN store |-> value]

\* st.session_state is one store per session: an assignment made by a script
\* run of session s is seen by session s alone.
Put(store, s, value) == [store EXCEPT ![s] = value]

\* The value load_model() returns: (checker, None) or (None, message)
LoadOutcomes ==
    {[status |-> "cached", checker |-> c, error |-> ""] : c \in Checkers}
    \cup {[status |-> "cached", checker |-> NoChecker, error |-> e] :
            e \in {"Model file not found", "Error loading model"}}

EmptyCache == [status |-> "empty", checker |-> NoChecker, error |-> ""]

\* @st.cache_resource: the first call runs load_model(), every later call in
\* the process returns the cached value.
LoadModel(cache) == IF cache.status = "empty" THEN LoadOutcomes ELSE {cache}

\* Chat messages
GreetingMsg ==
    [kind |-> "greeting", text |-> <<>>, found |-> <<>>, result |-> NoResult]

UnrecognizedMsg ==
    [kind |-> "unrecognized", text |-> <<>>, found |-> <<>>, result |-> NoResult]

UserMsg(u) ==
    [kind |-> "input", text |-> u, found |-> <<>>, result |-> NoResult]

\* The bot's reply to a Send that found symptoms: the symptoms identified in
\* this message and, when the result names a disease, the diagnosis.
Response(found, result) ==
    [kind |-> "identified", text |-> <<>>, found |-> found,
     result |-> IF result.disease # "" THEN [result EXCEPT !.error = ""]
                ELSE NoResult]

\* Mutant of AddToChat: the history is replaced by the new entry
ReplaceChat(history, role, message) == <<[role |-> role, message |-> message]>>

\* add_to_chat(role, message)
AddToChat(history, role, message) ==
    Append(history, [role |-> role, message |-> message])

\* chat_mode's first lines: an empty history gets the welcome message
EnsureGreeting(history) ==
    IF history # <<>> THEN history
    ELSE AddToChat(history, "bot", GreetingMsg)

\* The history after main() has rendered the page of mode m
RenderMode(m, history) ==
    IF m = "chat" THEN EnsureGreeting(history) ELSE history

\* Mutant of FoundSymptoms: the utterance is matched without .lower()
FoundCaseSensitive(chk, user_input) ==
    SelectSeq(chk.all_symptoms, LAMBDA s : Contains(user_input, s))

\* found_symptoms = [s for s in all_symptoms if s in input_lower]
FoundSymptoms(chk, user_input) ==
    SelectSeq(chk.all_symptoms, LAMBDA s : Contains(Lower(user_input), s))

\* Mutant of ShouldPredict: the guard is dropped
AlwaysPredict(found) == TRUE

\* `if found_symptoms:`
ShouldPredict(found) == found # <<>>

\* Mutant of ExtendDedup: extend() without the list(set(...)) line
ExtendOnly(selected, found) == {selected \o found}

\* selected_symptoms.extend(found); selected_symptoms = list(set(...))
ExtendDedup(selected, found) == Perms(ToSet(selected \o found))

\* Mutant of SendPredictArgs: only this message's symptoms are predicted on
SendFoundOnly(selected, found) == found

\* The list the Send handler hands to checker.predict
SendPredictArgs(selected, found) == selected

\* Mutant of RemoveFrom: pop() drops the last element, whatever x is
RemoveLast(selected, x) == SubSeq(selected, 1, Len(selected) - 1)

\* list.remove(x): drops the first occurrence of x
RemoveFrom(selected, x) ==
    LET i == CHOOSE i \in 1..Len(selected) :
                 selected[i] = x /\ \A j \in 1..(i - 1) : selected[j] # x
    IN  SubSeq(selected, 1, i - 1) \o SubSeq(selected, i + 1, Len(selected))

\* Mutant of AfterDiagnosis: the list is cleared once diagnosed
ClearAfterDiagnosis(selected) == <<>>

\* The Get Diagnosis handler reads selected_symptoms and assigns nothing
AfterDiagnosis(selected) == selected

\* Mutant of ResetState: the selected_symptoms assignment is missing
ResetKeepsSymptoms(history, selected, stage) ==
    [chat_history |-> <<>>, selected_symptoms |-> selected,
     conversation_stage |-> "greeting"]

\* The Start New Consultation handler's three assignments
ResetState(history, selected, stage) ==
    [chat_history |-> <<>>, selected_symptoms |-> <<>>,
     conversation_stage |-> "greeting"]

\* format_disease_result: st.error for a result carrying an error
FormatOutcome(result) == IF result.error # "" THEN "error" ELSE "result"

\* Quick Check: the Analyze button is disabled while nothing is ticked
AnalyzeDisabled(selected) == Len(selected) = 0

NoLast ==
    [sid |-> "none", kind |-> "init", utter |-> <<>>, found |-> <<>>,
     before |-> <<>>, called |-> FALSE, args |-> <<>>, result |-> NoResult, outcome |-> "none"]

Did(s, kind) ==
    [NoLast EXCEPT !.sid = s, !.kind = kind, !.before = selected_symptoms[s]]

NoDiag == [valid |-> FALSE, again |-> FALSE, args |-> <<>>, result |-> NoResult]

Init ==
    /\ model_cache = EmptyCache
    /\ checker = [s \in Sessions |-> NoChecker]
    /\ chat_history = [s \in Sessions |-> <<>>]
    /\ selected_symptoms = [s \in Sessions |-> <<>>]
    /\ conversation_stage = [s \in Sessions |-> "greeting"]
    /\ mode = [s \in Sessions |-> "chat"]
    /\ log = [s \in Sessions |-> [c \in CatalogSet |-> "never"]]
    /\ diag = [s \in Sessions |-> NoDiag]
    /\ last = NoLast

\* The session's page has been rendered: its widgets can be used
Rendered(s) == checker[s] # NoChecker

\* A script run with no button pressed (the first page load, a reload)
Run(s) ==
    \E r \in LoadModel(model_cache) :
        /\ model_cache' = r
        /\ IF r.error # ""
           THEN /\ last' = [Did(s, "run") EXCEPT !.outcome = "load_error"]
                /\ UNCHANGED <<checker, chat_history>>
           ELSE /\ checker' = Put(checker, s, r.checker)
                /\ chat_history' =
                       Put(chat_history, s, RenderMode(mode[s], chat_history[s]))
                /\ last' = Did(s, "run")
        /\ UNCHANGED <<selected_symptoms, conversation_stage, mode, log, diag>>

\* The sidebar radio is set to another mode
SelectMode(s, m) ==
    /\ Rendered(s)
    /\ m # mode[s]
    /\ mode' = Put(mode, s, m)
    /\ chat_history' = Put(chat_history, s, RenderMode(m, chat_history[s]))
    /\ last' = Did(s, "mode")
    /\ UNCHANGED <<model_cache, checker, selected_symptoms, conversation_stage,
                   log, diag>>

\* Start New Consultation: the three assignments, then st.rerun()
NewConsultation(s) ==
    /\ Rendered(s)
    /\ LET r == ResetState(chat_history[s], selected_symptoms[s],
                           conversation_stage[s])
       IN  /\ chat_history' =
                  Put(chat_history, s, RenderMode(mode[s], r.chat_history))
           /\ selected_symptoms' = Put(selected_symptoms, s, r.selected_symptoms)
           /\ conversation_stage' =
                  Put(conversation_stage, s, r.conversation_stage)
    /\ log' = Put(log, s, [c \in CatalogSet |-> "never"])
    /\ diag' = Put(diag, s, NoDiag)
    /\ last' = Did(s, "reset")
    /\ UNCHANGED <<model_cache, checker, mode>>

\* Send with the text box holding u, then st.rerun()
Send(s, u, cap) ==
    /\ Rendered(s)
    /\ mode[s] = "chat"
    /\ Len(chat_history[s]) + 2 <= cap
    /\ LET chk == model_cache.checker
           h0 == EnsureGreeting(chat_history[s])
           h1 == AddToChat(h0, "user", UserMsg(u))
           found == FoundSymptoms(chk, u)
       IN  IF u = <<>>
           THEN /\ chat_history' = Put(chat_history, s, h0)
                /\ last' = Did(s, "send")
                /\ UNCHANGED <<selected_symptoms, log, diag>>
           ELSE IF ShouldPredict(found)
           THEN \E sel \in ExtendDedup(selected_symptoms[s], found) :
                    LET args == SendPredictArgs(sel, found)
                        result == Predict(chk, args)
                    IN  /\ selected_symptoms' = Put(selected_symptoms, s, sel)
                        /\ chat_history' =
                               Put(chat_history, s,
                                   AddToChat(h1, "bot", Response(found, result)))
                        /\ log' = Put(log, s,
                               [c \in CatalogSet |->
                                   IF c \in ToSet(found) THEN "in" ELSE log[s][c]])
                        /\ diag' = Put(diag, s, NoDiag)
                        /\ last' = [Did(s, "send") EXCEPT
                                       !.utter = u, !.found = found,
                                       !.called = TRUE, !.args = args,
                                       !.result = result, !.outcome = "reply"]
           ELSE /\ chat_history' =
                       Put(chat_history, s, AddToChat(h1, "bot", UnrecognizedMsg))
                /\ last' = [Did(s, "send") EXCEPT
                               !.utter = u, !.found = found,
                               !.outcome = "prompt"]
                /\ diag' = Put(diag, s, NoDiag)
                /\ UNCHANGED <<selected_symptoms, log>>
    /\ UNCHANGED <<model_cache, checker, conversation_stage, mode>>

\* The remove button of symptom x, then st.rerun()
RemoveSymptom(s, x) ==
    /\ Rendered(s)
    /\ mode[s] = "chat"
    /\ x \in ToSet(selected_symptoms[s])
    /\ selected_symptoms' =
           Put(selected_symptoms, s, RemoveFrom(selected_symptoms[s], x))
    /\ chat_history' = Put(chat_history, s, EnsureGreeting(chat_history[s]))
    /\ log' = Put(log, s, [log[s] EXCEPT ![x] = "removed"])
    /\ diag' = Put(diag, s, NoDiag)
    /\ last' = [Did(s, "remove") EXCEPT !.found = <<x>>]
    /\ UNCHANGED <<model_cache, checker, conversation_stage, mode>>

\* Get Diagnosis: rendered only while selected_symptoms is non-empty
GetDiagnosis(s) ==
    /\ Rendered(s)
    /\ mode[s] = "chat"
    /\ selected_symptoms[s] # <<>>
    /\ LET args == selected_symptoms[s]
           result == Predict(model_cache.checker, args)
       IN  /\ last' = [Did(s, "diagnosis") EXCEPT
                          !.called = TRUE, !.args = args, !.result = result,
                          !.outcome = FormatOutcome(result)]
           /\ selected_symptoms' =
                  Put(selected_symptoms, s, AfterDiagnosis(selected_symptoms[s]))
           /\ diag' = Put(diag, s, [valid |-> TRUE, again |-> diag[s].valid,
                                    args |-> args, result |-> result])
    /\ chat_history' = Put(chat_history, s, EnsureGreeting(chat_history[s]))
    /\ UNCHANGED <<model_cache, checker, conversation_stage, mode, log>>

\* Quick Check's Analyze Symptoms with the boxes of `ticked` checked
AnalyzeSymptoms(s, ticked) ==
    /\ Rendered(s)
    /\ mode[s] = "quick"
    /\ LET selected == SelectSeq(Catalog, LAMBDA c : c \in ticked)
       IN  /\ ~AnalyzeDisabled(selected)
           /\ IF selected # <<>>
              THEN LET result == Predict(model_cache.checker, selected)
                   IN  last' = [Did(s, "analyze") EXCEPT
                                   !.called = TRUE, !.args = selected,
                                   !.result = result,
                                   !.outcome = FormatOutcome(result)]
              ELSE last' = [Did(s, "analyze") EXCEPT !.outcome = "warning"]
    /\ UNCHANGED <<model_cache, checker, chat_history, selected_symptoms,
                   conversation_stage, mode, log, diag>>

---------------------------------------------------------------------------
(* Specifications *)

\* The utterances typed in the one-session and two-session specifications:
\* "", "ab", "AB", "ba", "aBa" (holds both symptoms), "axb" (holds none)
Utterances ==
    {<<>>, <<"a", "b">>, <<"A", "B">>, <<"b", "a">>, <<"a", "B", "a">>,
     <<"a", "x", "b">>}

UtterancesMulti == {<<"A", "B">>, <<"a", "B", "a">>, <<"a", "x", "b">>}

\* One session
Next ==
    \E s \in {"s1"} :
        \/ Run(s)
        \/ \E m \in Modes : SelectMode(s, m)
        \/ NewConsultation(s)
        \/ \E u \in Utterances : Send(s, u, MaxHistory)
        \/ \E x \in CatalogSet : RemoveSymptom(s, x)
        \/ GetDiagnosis(s)
        \/ \E ticked \in SUBSET CatalogSet : AnalyzeSymptoms(s, ticked)

Spec == Init /\ [][Next]_vars

\* Two sessions interleaving their script runs
NextMulti ==
    \E s \in Sessions :
        \/ Run(s)
        \/ \E m \in Modes : SelectMode(s, m)
        \/ NewConsultation(s)
        \/ \E u \in UtterancesMulti : Send(s, u, MaxHistoryMulti)
        \/ \E x \in CatalogSet : RemoveSymptom(s, x)
        \/ GetDiagnosis(s)
        \/ \E ticked \in SUBSET CatalogSet : AnalyzeSymptoms(s, ticked)

SpecMulti == Init /\ [][NextMulti]_vars

\* One session sending every utterance of at most MaxLen characters
NextMatch ==
    \E s \in {"s1"} :
        \/ Run(s)
        \/ NewConsultation(s)
        \/ \E u \in StringsUpTo(MaxLen) : Send(s, u, MaxHistoryMatch)

SpecMatch == Init /\ [][NextMatch]_vars

---------------------------------------------------------------------------
(* Properties *)

\* The session whose script run was the latest
Actor == last.sid

IsPrefix(h, g) == Len(h) <= Len(g) /\ SubSeq(g, 1, Len(h)) = h

\* c occurs in t as a contiguous substring
OccursIn(c, t) ==
    \E i \in 1..(Len(t) + 1) :
        /\ i + Len(c) - 1 <= Len(t)
        /\ \A k \in 1..Len(c) : t[i + k - 1] = c[k]

\* The symptoms recognised since the last reset and not removed since
Accumulated(s) == {c \in CatalogSet : log[s][c] = "in"}

\* A Send was handled and left the session without any selected symptom
EmptySend ==
    /\ last.kind = "send"
    /\ last.utter # <<>>
    /\ selected_symptoms[Actor] = <<>>

C2_UnionNoDuplicates ==
    [][/\ \A s \in Sessions :
              Cardinality(ToSet(selected_symptoms'[s])) =
                  Len(selected_symptoms'[s])
       /\ (/\ last'.kind = "send"
           /\ ToSet(last'.found) \subseteq ToSet(selected_symptoms[last'.sid]))
          => ToSet(selected_symptoms'[last'.sid]) =
                 ToSet(selected_symptoms[last'.sid])]_vars

C2_Witness ==
    /\ last.kind = "send"
    /\ last.found # <<>>
    /\ ToSet(last.found) \subseteq ToSet(last.before)
    /\ Len(selected_symptoms[Actor]) = 2

\* C3 (as stated): after Start New Consultation the session has no selected
\* symptom, an empty chat history and the stage 'greeting'.
C3_ResetLeavesHistoryEmpty ==
    last.kind = "reset" =>
        /\ selected_symptoms[Actor] = <<>>
        /\ chat_history[Actor] = <<>>
        /\ conversation_stage[Actor] = "greeting"

\* C3 (amended): after Start New Consultation the session has no selected
\* symptom, the stage 'greeting', and a chat history holding nothing from
\* before: it is empty, except that in Chat Mode the rerun has put the one
\* welcome message in it.
C3_ResetClearsSession ==
    last.kind = "reset" =>
        /\ selected_symptoms[Actor] = <<>>
        /\ conversation_stage[Actor] = "greeting"
        /\ chat_history[Actor] =
               IF mode[Actor] = "chat"
               THEN <<[role |-> "bot", message |-> GreetingMsg]>>
               ELSE <<>>

C3_Witness ==
    /\ last.kind = "reset"
    /\ last.before # <<>>
    /\ mode[Actor] = "chat"

\* C4: the stage is 'collecting' after a Send that recognised a symptom and
\* 'diagnosing' after Get Diagnosis.
C4_StageFollowsActions ==
    /\ (last.kind = "send" /\ last.found # <<>>) =>
           conversation_stage[Actor] = "collecting"
    /\ last.kind = "diagnosis" => conversation_stage[Actor] = "diagnosing"

\* C5: removing symptom x removes exactly x from selected_symptoms (the others
\* stay, in their order), leaves chat_history as it was, and no later
\* prediction of the session is given x unless a later Send recognised it.
C5_RemoveExactlyOne ==
    [][/\ last'.kind = "remove" =>
              LET s == last'.sid
                  x == last'.found[1]
              IN  /\ selected_symptoms'[s] =
                         SelectSeq(selected_symptoms[s], LAMBDA y : y # x)
                  /\ Len(selected_symptoms'[s]) = Len(selected_symptoms[s]) - 1
                  /\ chat_history'[s] = chat_history[s]
       /\ (last'.called /\ last'.kind \in {"send", "diagnosis"}) =>
              \A c \in CatalogSet :
                  log'[last'.sid][c] = "removed" => c \notin ToSet(last'.args)
      ]_vars

C5_Witness ==
    /\ last.kind = "diagnosis"
    /\ \E c \in CatalogSet : log[Actor][c] = "removed"
    /\ Len(chat_history[Actor]) >= 3

\* C6: Get Diagnosis leaves selected_symptoms as it was, and a Get Diagnosis
\* that follows another with no Send, remove or reset between them passes the
\* same symptoms and shows the same result.
C6_DiagnosisIdempotent ==
    [][last'.kind = "diagnosis" =>
           LET s == last'.sid
           IN  /\ selected_symptoms'[s] = selected_symptoms[s]
               /\ diag[s].valid =>
                      /\ last'.args = diag[s].args
                      /\ last'.result = diag[s].result]_vars

C6_Witness ==
    /\ last.kind = "diagnosis"
    /\ diag[Actor].again
    /\ last.result.disease # ""

\* A script run that ended in a user-visible failure
Failed(l) ==
    \/ l.outcome \in {"prompt", "load_error", "error"}
    \/ l.called /\ l.result.error # ""

\* C7 (as stated): a failure leaves selected_symptoms unchanged and keeps
\* every chat_history entry.
C7_FailureLeavesSymptomsUnchanged ==
    [][Failed(last') =>
           /\ selected_symptoms'[last'.sid] = selected_symptoms[last'.sid]
           /\ IsPrefix(chat_history[last'.sid], chat_history'[last'.sid])]_vars

\* C7 (amended): a failure removes no selected symptom and removes or alters
\* no chat_history entry (at most the user's message and the bot's reply are
\* added); selected_symptoms is unchanged except in a Send that recognised
\* symptoms, which has added them before the prediction reported its error.
C7_FailurePreservesState ==
    [][Failed(last') =>
           LET s == last'.sid
           IN  /\ ToSet(selected_symptoms[s]) \subseteq
                      ToSet(selected_symptoms'[s])
               /\ IsPrefix(chat_history[s], chat_history'[s])
               /\ Len(chat_history'[s]) <= Len(chat_history[s]) + 2
               /\ \/ selected_symptoms'[s] = selected_symptoms[s]
                  \/ /\ last'.kind = "send"
                     /\ ToSet(selected_symptoms'[s]) =
                            ToSet(selected_symptoms[s]) \cup ToSet(last'.found)
      ]_vars

C7_Witness ==
    /\ last.kind = "send"
    /\ last.called
    /\ last.result.error # ""
    /\ last.before # <<>>
    /\ ToSet(last.before) # ToSet(selected_symptoms[Actor])

\* C8: a script run of one session changes no other session's
\* selected_symptoms, chat_history or conversation_stage, and no script run
\* changes the model once it is cached.
C8_SessionsIsolated ==
    [][/\ \A t \in Sessions :
              t # last'.sid =>
                  /\ selected_symptoms'[t] = selected_symptoms[t]
                  /\ chat_history'[t] = chat_history[t]
                  /\ conversation_stage'[t] = conversation_stage[t]
       /\ model_cache.status = "cached" => model_cache' = model_cache]_vars

C8_Witness ==
    /\ selected_symptoms["s1"] # <<>>
    /\ selected_symptoms["s2"] # <<>>
    /\ ToSet(selected_symptoms["s1"]) # ToSet(selected_symptoms["s2"])
    /\ chat_history["s1"] # chat_history["s2"]

\* C9: the symptoms a Send recognises are exactly the Catalog entries that
\* occur as a contiguous substring of the case-folded utterance; utterances
\* that differ only in letter case recognise the same symptoms; and every
\* selected symptom is a Catalog entry.
C9_SubstringMatch ==
    /\ (last.kind = "send" /\ last.utter # <<>>) =>
           /\ ToSet(last.found) =
                  {c \in CatalogSet : OccursIn(c, Lower(last.utter))}
           /\ \A u \in StringsUpTo(Len(last.utter)) :
                  Lower(u) = Lower(last.utter) =>
                      FoundSymptoms(model_cache.checker, u) = last.found
    /\ \A s \in Sessions : ToSet(selected_symptoms[s]) \subseteq CatalogSet

C9_Witness ==
    /\ last.kind = "send"
    /\ last.utter # Lower(last.utter)
    /\ last.found # <<>>
    /\ ToSet(selected_symptoms[Actor]) = ToSet(last.found)

\* C10: the list a Send or Get Diagnosis passes to checker.predict holds, as
\* a set, every symptom recognised since the last Start New Consultation and
\* not removed since (unless recognised again).
C10_PredictsOnAccumulated ==
    (last.called /\ last.kind \in {"send", "diagnosis"}) =>
        ToSet(last.args) = Accumulated(Actor)

C10_Witness ==
    /\ last.kind = "send"
    /\ last.called
    /\ ToSet(last.found) # ToSet(last.args)

=============================================================================
